---- MODULE Spec2Model ----
(***************************************************************************)
(* Model of io.h: a circular byte buffer (IO_Buffer) and a buffered reader *)
(* (IO_Reader) over a blocking byte source (a file descriptor).            *)
(*                                                                         *)
(* Pointers into the buffer's allocation are modelled as indices into the  *)
(* physical region 0..cap.  A destination array of n bytes is a function   *)
(* over 0..n-1; Junk marks a byte nobody has written.  The byte at offset  *)
(* i of the source stream is i + 1, so every stream byte is distinct and   *)
(* differs from Junk.                                                      *)
(***************************************************************************)
EXTENDS Integers, Sequences, FiniteSets, TLC

\* Bounds of the model.
MaxCap == 2
MaxLen == 4

Junk == 0

Caps == 1..MaxCap
ArgN == 0..(MaxCap + 1)
\* What the source is willing to hand out on one read: -1 is a read error,
\* y >= 0 caps the number of bytes; MaxCap + 1 never caps a request.
Yields == -1..(MaxCap + 1)
FullYield == MaxCap + 1

OK == "IO_ERR_OK"
OOM == "IO_ERR_OOM"
OOB == "IO_ERR_OOB"
EOF == "IO_ERR_EOF"
INV_PTR == "IO_ERR_INV_PTR"
FAILED_READ == "IO_ERR_FAILED_READ"

VARIABLES cap, buf, start, end, pos, nread, fd_len, fd_off, delivered, skipped, last

vars == <<cap, buf, start, end, pos, nread, fd_len, fd_off, delivered, skipped, last>>

MIN(a, b) == IF a < b THEN a ELSE b

\* The byte at offset i of the source stream.
SrcByte(i) == i + 1

\* A destination array of n bytes that nothing has been written to.
NewDest(n) == [i \in 0..(n - 1) |-> Junk]

\* The n bytes of the stream starting at offset off, as an array.
SrcArray(off, n) == [i \in 0..(n - 1) |-> SrcByte(off + i)]

\* The number of bytes of an array that have been written.
Written(a) == Cardinality({i \in DOMAIN a : a[i] # Junk})

\* memcpy(dst + d0, src + s0, n) on arrays; a read outside src yields Junk
\* and a write outside dst is dropped (MemInBounds tells them apart).
memcpy(dst, d0, src, s0, n) ==
    [i \in DOMAIN dst |->
        IF i >= d0 /\ i < d0 + n
        THEN (IF (s0 + (i - d0)) \in DOMAIN src THEN src[s0 + (i - d0)] ELSE Junk)
        ELSE dst[i]]

\* Whether memcpy of n bytes at offset o stays inside an array of domain dom.
MemInBounds(dom, o, n) == \A i \in o..(o + n - 1) : i \in dom

(***************************************************************************)
(* IO_Buffer                                                               *)
(***************************************************************************)
io_buffer_init(c) ==
    [cap |-> c, buf |-> [i \in 0..c |-> Junk], start |-> 0, end |-> 0]

\* A buffer without the sentinel slot.
io_buffer_size_nosentinel(b) == b.cap

io_buffer_size(b) == b.cap + 1

\* A length that forgets the wrapped case.
io_buffer_len_nowrap(b) == b.end - b.start

io_buffer_len(b) ==
    IF b.end >= b.start
    THEN b.end - b.start
    ELSE io_buffer_size(b) - b.start + b.end

\* A reset that rewinds both indices to the first slot.
io_buffer_reset_zero(b) == [b EXCEPT !.start = 0, !.end = 0]

io_buffer_reset(b) == [b EXCEPT !.start = b.end]

\* A distance to the physical end that is one short when start is ahead.
io_buffer_left_until_wrap_short(b) ==
    IF b.end >= b.start
    THEN io_buffer_size(b) - b.end
    ELSE io_buffer_size(b) - b.start - 1

io_buffer_left_until_wrap(b) ==
    IF b.end >= b.start
    THEN io_buffer_size(b) - b.end
    ELSE io_buffer_size(b) - b.start

\* An advance that does not clamp n to the stored length.
io_buffer_nadvance_noclamp(b, n) ==
    LET len == io_buffer_len(b)
        to_shift == n
        cur_pos == b.start
        new_pos == (cur_pos + to_shift) % io_buffer_size(b)
    IN  [b |-> [b EXCEPT !.start = new_pos], ret |-> to_shift]

\* An advance that lets start run past the physical end.
io_buffer_nadvance_nomod(b, n) ==
    LET len == io_buffer_len(b)
        to_shift == IF n > len THEN len ELSE n
        cur_pos == b.start
        new_pos == cur_pos + to_shift
    IN  [b |-> [b EXCEPT !.start = new_pos], ret |-> to_shift]

io_buffer_nadvance(b, n) ==
    LET len == io_buffer_len(b)
        to_shift == IF n > len THEN len ELSE n
        cur_pos == b.start
        new_pos == (cur_pos + to_shift) % io_buffer_size(b)
    IN  [b |-> [b EXCEPT !.start = new_pos], ret |-> to_shift]

\* A copy-out that tests n against the capacity, not the stored length.
io_buffer_nspit_capcheck(src, dest, dp, n) ==
    IF ~dp THEN [err |-> INV_PTR, dest |-> dest, inb |-> TRUE]
    ELSE IF n = 0 THEN [err |-> OK, dest |-> dest, inb |-> TRUE]
    ELSE IF n > src.cap THEN [err |-> OOB, dest |-> dest, inb |-> TRUE]
    ELSE IF src.end >= src.start
    THEN [err |-> OK,
          dest |-> memcpy(dest, 0, src.buf, src.start, n),
          inb |-> MemInBounds(DOMAIN src.buf, src.start, n)]
    ELSE LET to_copy == MIN(io_buffer_left_until_wrap(src), n)
             d1 == memcpy(dest, 0, src.buf, src.start, to_copy)
         IN  IF n > to_copy
             THEN [err |-> OK,
                   dest |-> memcpy(d1, to_copy, src.buf, 0, n - to_copy),
                   inb |-> MemInBounds(DOMAIN src.buf, src.start, to_copy)
                           /\ MemInBounds(DOMAIN src.buf, 0, n - to_copy)]
             ELSE [err |-> OK, dest |-> d1,
                   inb |-> MemInBounds(DOMAIN src.buf, src.start, to_copy)]

\* A copy-out whose second part starts where the first part stopped.
io_buffer_nspit_offset(src, dest, dp, n) ==
    IF ~dp THEN [err |-> INV_PTR, dest |-> dest, inb |-> TRUE]
    ELSE IF n = 0 THEN [err |-> OK, dest |-> dest, inb |-> TRUE]
    ELSE IF n > io_buffer_len(src) THEN [err |-> OOB, dest |-> dest, inb |-> TRUE]
    ELSE IF src.end >= src.start
    THEN [err |-> OK,
          dest |-> memcpy(dest, 0, src.buf, src.start, n),
          inb |-> MemInBounds(DOMAIN src.buf, src.start, n)]
    ELSE LET to_copy == MIN(io_buffer_left_until_wrap(src), n)
             d1 == memcpy(dest, 0, src.buf, src.start, to_copy)
         IN  IF n > to_copy
             THEN [err |-> OK,
                   dest |-> memcpy(d1, to_copy, src.buf, to_copy, n - to_copy),
                   inb |-> MemInBounds(DOMAIN src.buf, src.start, to_copy)
                           /\ MemInBounds(DOMAIN src.buf, 0, n - to_copy)]
             ELSE [err |-> OK, dest |-> d1,
                   inb |-> MemInBounds(DOMAIN src.buf, src.start, to_copy)]

\* io_buffer_nspit(src, dest, n); dp tells whether dest is non-NULL.
io_buffer_nspit(src, dest, dp, n) ==
    IF ~dp THEN [err |-> INV_PTR, dest |-> dest, inb |-> TRUE]
    ELSE IF n = 0 THEN [err |-> OK, dest |-> dest, inb |-> TRUE]
    ELSE IF n > io_buffer_len(src) THEN [err |-> OOB, dest |-> dest, inb |-> TRUE]
    ELSE IF src.end >= src.start
    THEN [err |-> OK,
          dest |-> memcpy(dest, 0, src.buf, src.start, n),
          inb |-> MemInBounds(DOMAIN src.buf, src.start, n)]
    ELSE LET to_copy == MIN(io_buffer_left_until_wrap(src), n)
             d1 == memcpy(dest, 0, src.buf, src.start, to_copy)
         IN  IF n > to_copy
             THEN [err |-> OK,
                   dest |-> memcpy(d1, to_copy, src.buf, 0, n - to_copy),
                   inb |-> MemInBounds(DOMAIN src.buf, src.start, to_copy)
                           /\ MemInBounds(DOMAIN src.buf, 0, n - to_copy)]
             ELSE [err |-> OK, dest |-> d1,
                   inb |-> MemInBounds(DOMAIN src.buf, src.start, to_copy)]

\* An append that counts the sentinel slot as free space.
io_buffer_append_loose(dest, src, s0, n) ==
    IF n = 0 THEN [err |-> OK, b |-> dest, inb |-> TRUE]
    ELSE LET len == io_buffer_len(dest)
             space_left == io_buffer_size(dest) - len
         IN  IF n > space_left THEN [err |-> OOB, b |-> dest, inb |-> TRUE]
             ELSE IF dest.start > dest.end
             THEN [err |-> OK,
                   b |-> [dest EXCEPT !.buf = memcpy(dest.buf, dest.end, src, s0, n),
                                      !.end = dest.end + n],
                   inb |-> MemInBounds(DOMAIN dest.buf, dest.end, n)]
             ELSE LET to_copy == MIN(io_buffer_left_until_wrap(dest), n)
                      buf1 == memcpy(dest.buf, dest.end, src, s0, to_copy)
                      end1 == dest.end + to_copy
                      end2 == IF end1 = io_buffer_size(dest) THEN 0 ELSE end1
                      n2 == n - to_copy
                  IN  IF n2 > 0
                      THEN [err |-> OK,
                            b |-> [dest EXCEPT !.buf = memcpy(buf1, end2, src, s0 + to_copy, n2),
                                               !.end = end2 + n2],
                            inb |-> MemInBounds(DOMAIN dest.buf, dest.end, to_copy)
                                    /\ MemInBounds(DOMAIN dest.buf, end2, n2)]
                      ELSE [err |-> OK,
                            b |-> [dest EXCEPT !.buf = buf1, !.end = end2],
                            inb |-> MemInBounds(DOMAIN dest.buf, dest.end, to_copy)]

\* An append that leaves end at the physical size.
io_buffer_append_nowrap(dest, src, s0, n) ==
    IF n = 0 THEN [err |-> OK, b |-> dest, inb |-> TRUE]
    ELSE LET len == io_buffer_len(dest)
             space_left == dest.cap - len
         IN  IF n > space_left THEN [err |-> OOB, b |-> dest, inb |-> TRUE]
             ELSE IF dest.start > dest.end
             THEN [err |-> OK,
                   b |-> [dest EXCEPT !.buf = memcpy(dest.buf, dest.end, src, s0, n),
                                      !.end = dest.end + n],
                   inb |-> MemInBounds(DOMAIN dest.buf, dest.end, n)]
             ELSE LET to_copy == MIN(io_buffer_left_until_wrap(dest), n)
                      buf1 == memcpy(dest.buf, dest.end, src, s0, to_copy)
                      end1 == dest.end + to_copy
                      end2 == end1
                      n2 == n - to_copy
                  IN  IF n2 > 0
                      THEN [err |-> OK,
                            b |-> [dest EXCEPT !.buf = memcpy(buf1, end2, src, s0 + to_copy, n2),
                                               !.end = end2 + n2],
                            inb |-> MemInBounds(DOMAIN dest.buf, dest.end, to_copy)
                                    /\ MemInBounds(DOMAIN dest.buf, end2, n2)]
                      ELSE [err |-> OK,
                            b |-> [dest EXCEPT !.buf = buf1, !.end = end2],
                            inb |-> MemInBounds(DOMAIN dest.buf, dest.end, to_copy)]

\* io_buffer_append(dest, src + s0, n): src is an array, s0 the offset in it.
io_buffer_append(dest, src, s0, n) ==
    IF n = 0 THEN [err |-> OK, b |-> dest, inb |-> TRUE]
    ELSE LET len == io_buffer_len(dest)
             space_left == dest.cap - len
         IN  IF n > space_left THEN [err |-> OOB, b |-> dest, inb |-> TRUE]
             ELSE IF dest.start > dest.end
             THEN [err |-> OK,
                   b |-> [dest EXCEPT !.buf = memcpy(dest.buf, dest.end, src, s0, n),
                                      !.end = dest.end + n],
                   inb |-> MemInBounds(DOMAIN dest.buf, dest.end, n)]
             ELSE LET to_copy == MIN(io_buffer_left_until_wrap(dest), n)
                      buf1 == memcpy(dest.buf, dest.end, src, s0, to_copy)
                      end1 == dest.end + to_copy
                      end2 == IF end1 = io_buffer_size(dest) THEN 0 ELSE end1
                      n2 == n - to_copy
                  IN  IF n2 > 0
                      THEN [err |-> OK,
                            b |-> [dest EXCEPT !.buf = memcpy(buf1, end2, src, s0 + to_copy, n2),
                                               !.end = end2 + n2],
                            inb |-> MemInBounds(DOMAIN dest.buf, dest.end, to_copy)
                                    /\ MemInBounds(DOMAIN dest.buf, end2, n2)]
                      ELSE [err |-> OK,
                            b |-> [dest EXCEPT !.buf = buf1, !.end = end2],
                            inb |-> MemInBounds(DOMAIN dest.buf, dest.end, to_copy)]

\* The logical contents of the buffer: the bytes from start up to end, in
\* order, wrapping at the physical size.
Contents(b) ==
    [i \in 0..(io_buffer_len(b) - 1) |-> b.buf[(b.start + i) % io_buffer_size(b)]]

(***************************************************************************)
(* The byte source behind the reader's file descriptor                     *)
(***************************************************************************)
\* IO_READ(fd, dest, count) on a source holding fd.len bytes of which fd.off
\* have been handed out.  y is what the source is willing to yield on this
\* call.  A NULL destination (dp false) makes read() fail as soon as it has a
\* byte to store, and return 0 when it has none.
IO_READ(fd, dp, count, y) ==
    LET avail == fd.len - fd.off
        g == MIN(MIN(count, avail), y)
        n == IF y < 0 THEN -1
             ELSE IF dp \/ g = 0 THEN g ELSE -1
    IN  [n |-> n, fd |-> IF n > 0 THEN [fd EXCEPT !.off = fd.off + n] ELSE fd]

\* The destination after read() stored n bytes of the stream at dest + d0.
StoreRead(dest, d0, fd, n) ==
    IF n > 0 THEN memcpy(dest, d0, SrcArray(fd.off, n), 0, n) ELSE dest

(***************************************************************************)
(* IO_Reader: r = [b, pos, nread, fd].  Every operation returns the status *)
(* ret, the reader r afterwards, the destination dest afterwards, and what  *)
(* it did with the source: reads (number of IO_READ calls), req (bytes     *)
(* requested), got (bytes obtained), and k, the number of bytes it handed  *)
(* to the caller.                                                          *)
(***************************************************************************)
io_reader_init(b, fd) == [b |-> b, pos |-> 0, nread |-> 0, fd |-> fd]

io_reader_buffered(r) == r.nread - r.pos

NoIO(ret, r, dest, k) ==
    [ret |-> ret, r |-> r, dest |-> dest, reads |-> 0, req |-> 0, got |-> 0, k |-> k]

\* A peek that consumes what it delivers.
io_reader_npeek_advancing(r, dest, dp, n, y) ==
    IF n = 0 THEN NoIO(OK, r, dest, 0)
    ELSE IF n > r.b.cap THEN NoIO(OOB, r, dest, 0)
    ELSE
    LET buflen == io_buffer_len(r.b)
        to_read == n - MIN(n, buflen)
        rd == IO_READ(r.fd, dp, to_read, y)
        dest1 == IF to_read > 0 THEN StoreRead(dest, buflen, r.fd, rd.n) ELSE dest
        ap == io_buffer_append(r.b, dest1, buflen, rd.n)
        r2 == IF to_read > 0
              THEN [r EXCEPT !.b = ap.b, !.nread = r.nread + rd.n, !.fd = rd.fd]
              ELSE r
        result == IF to_read > 0 /\ rd.n < to_read THEN EOF ELSE OK
        k == MIN(io_reader_buffered(r2), n)
        sp == io_buffer_nspit(r2.b, dest1, dp, k)
        io == [reads |-> IF to_read > 0 THEN 1 ELSE 0, req |-> to_read,
               got |-> IF to_read > 0 /\ rd.n > 0 THEN rd.n ELSE 0]
    IN  IF to_read > 0 /\ rd.n < 0
        THEN [ret |-> FAILED_READ, r |-> r, dest |-> dest, k |-> 0] @@ io
        ELSE IF to_read > 0 /\ ap.err # OK
        THEN [ret |-> ap.err, r |-> [r EXCEPT !.fd = rd.fd], dest |-> dest1, k |-> 0] @@ io
        ELSE IF sp.err # OK
        THEN [ret |-> sp.err, r |-> r2, dest |-> dest1, k |-> 0] @@ io
        ELSE [ret |-> result,
              r |-> [r2 EXCEPT !.pos = r2.pos + k, !.b = io_buffer_nadvance(r2.b, k).b],
              dest |-> sp.dest, k |-> k] @@ io

\* A peek that refuses a request of exactly the capacity.
io_reader_npeek_capcheck(r, dest, dp, n, y) ==
    IF n = 0 THEN NoIO(OK, r, dest, 0)
    ELSE IF n >= r.b.cap THEN NoIO(OOB, r, dest, 0)
    ELSE
    LET buflen == io_buffer_len(r.b)
        to_read == n - MIN(n, buflen)
        rd == IO_READ(r.fd, dp, to_read, y)
        dest1 == IF to_read > 0 THEN StoreRead(dest, buflen, r.fd, rd.n) ELSE dest
        ap == io_buffer_append(r.b, dest1, buflen, rd.n)
        r2 == IF to_read > 0
              THEN [r EXCEPT !.b = ap.b, !.nread = r.nread + rd.n, !.fd = rd.fd]
              ELSE r
        result == IF to_read > 0 /\ rd.n < to_read THEN EOF ELSE OK
        k == MIN(io_reader_buffered(r2), n)
        sp == io_buffer_nspit(r2.b, dest1, dp, k)
        io == [reads |-> IF to_read > 0 THEN 1 ELSE 0, req |-> to_read,
               got |-> IF to_read > 0 /\ rd.n > 0 THEN rd.n ELSE 0]
    IN  IF to_read > 0 /\ rd.n < 0
        THEN [ret |-> FAILED_READ, r |-> r, dest |-> dest, k |-> 0] @@ io
        ELSE IF to_read > 0 /\ ap.err # OK
        THEN [ret |-> ap.err, r |-> [r EXCEPT !.fd = rd.fd], dest |-> dest1, k |-> 0] @@ io
        ELSE IF sp.err # OK
        THEN [ret |-> sp.err, r |-> r2, dest |-> dest1, k |-> 0] @@ io
        ELSE [ret |-> result, r |-> r2, dest |-> sp.dest, k |-> k] @@ io

\* A peek that reads ahead until the buffer is full.
io_reader_npeek_fill(r, dest, dp, n, y) ==
    IF n = 0 THEN NoIO(OK, r, dest, 0)
    ELSE IF n > r.b.cap THEN NoIO(OOB, r, dest, 0)
    ELSE
    LET buflen == io_buffer_len(r.b)
        to_read == r.b.cap - buflen
        rd == IO_READ(r.fd, dp, to_read, y)
        dest1 == IF to_read > 0 THEN StoreRead(dest, buflen, r.fd, rd.n) ELSE dest
        ap == io_buffer_append(r.b, dest1, buflen, rd.n)
        r2 == IF to_read > 0
              THEN [r EXCEPT !.b = ap.b, !.nread = r.nread + rd.n, !.fd = rd.fd]
              ELSE r
        result == IF to_read > 0 /\ rd.n < to_read THEN EOF ELSE OK
        k == MIN(io_reader_buffered(r2), n)
        sp == io_buffer_nspit(r2.b, dest1, dp, k)
        io == [reads |-> IF to_read > 0 THEN 1 ELSE 0, req |-> to_read,
               got |-> IF to_read > 0 /\ rd.n > 0 THEN rd.n ELSE 0]
    IN  IF to_read > 0 /\ rd.n < 0
        THEN [ret |-> FAILED_READ, r |-> r, dest |-> dest, k |-> 0] @@ io
        ELSE IF to_read > 0 /\ ap.err # OK
        THEN [ret |-> ap.err, r |-> [r EXCEPT !.fd = rd.fd], dest |-> dest1, k |-> 0] @@ io
        ELSE IF sp.err # OK
        THEN [ret |-> sp.err, r |-> r2, dest |-> dest1, k |-> 0] @@ io
        ELSE [ret |-> result, r |-> r2, dest |-> sp.dest, k |-> k] @@ io

\* A peek that reports end of file only when the source yields nothing.
io_reader_npeek_eof(r, dest, dp, n, y) ==
    IF n = 0 THEN NoIO(OK, r, dest, 0)
    ELSE IF n > r.b.cap THEN NoIO(OOB, r, dest, 0)
    ELSE
    LET buflen == io_buffer_len(r.b)
        to_read == n - MIN(n, buflen)
        rd == IO_READ(r.fd, dp, to_read, y)
        dest1 == IF to_read > 0 THEN StoreRead(dest, buflen, r.fd, rd.n) ELSE dest
        ap == io_buffer_append(r.b, dest1, buflen, rd.n)
        r2 == IF to_read > 0
              THEN [r EXCEPT !.b = ap.b, !.nread = r.nread + rd.n, !.fd = rd.fd]
              ELSE r
        result == IF to_read > 0 /\ rd.n = 0 THEN EOF ELSE OK
        k == MIN(io_reader_buffered(r2), n)
        sp == io_buffer_nspit(r2.b, dest1, dp, k)
        io == [reads |-> IF to_read > 0 THEN 1 ELSE 0, req |-> to_read,
               got |-> IF to_read > 0 /\ rd.n > 0 THEN rd.n ELSE 0]
    IN  IF to_read > 0 /\ rd.n < 0
        THEN [ret |-> FAILED_READ, r |-> r, dest |-> dest, k |-> 0] @@ io
        ELSE IF to_read > 0 /\ ap.err # OK
        THEN [ret |-> ap.err, r |-> [r EXCEPT !.fd = rd.fd], dest |-> dest1, k |-> 0] @@ io
        ELSE IF sp.err # OK
        THEN [ret |-> sp.err, r |-> r2, dest |-> dest1, k |-> 0] @@ io
        ELSE [ret |-> result, r |-> r2, dest |-> sp.dest, k |-> k] @@ io

\* A peek without the shortcut for n = 0.
io_reader_npeek_nozero(r, dest, dp, n, y) ==
    IF n > r.b.cap THEN NoIO(OOB, r, dest, 0)
    ELSE
    LET buflen == io_buffer_len(r.b)
        to_read == n - MIN(n, buflen)
        rd == IO_READ(r.fd, dp, to_read, y)
        dest1 == IF to_read > 0 THEN StoreRead(dest, buflen, r.fd, rd.n) ELSE dest
        ap == io_buffer_append(r.b, dest1, buflen, rd.n)
        r2 == IF to_read > 0
              THEN [r EXCEPT !.b = ap.b, !.nread = r.nread + rd.n, !.fd = rd.fd]
              ELSE r
        result == IF to_read > 0 /\ rd.n < to_read THEN EOF ELSE OK
        k == MIN(io_reader_buffered(r2), n)
        sp == io_buffer_nspit(r2.b, dest1, dp, k)
        io == [reads |-> IF to_read > 0 THEN 1 ELSE 0, req |-> to_read,
               got |-> IF to_read > 0 /\ rd.n > 0 THEN rd.n ELSE 0]
    IN  IF to_read > 0 /\ rd.n < 0
        THEN [ret |-> FAILED_READ, r |-> r, dest |-> dest, k |-> 0] @@ io
        ELSE IF to_read > 0 /\ ap.err # OK
        THEN [ret |-> ap.err, r |-> [r EXCEPT !.fd = rd.fd], dest |-> dest1, k |-> 0] @@ io
        ELSE IF sp.err # OK
        THEN [ret |-> sp.err, r |-> r2, dest |-> dest1, k |-> 0] @@ io
        ELSE [ret |-> result, r |-> r2, dest |-> sp.dest, k |-> k] @@ io

io_reader_npeek(r, dest, dp, n, y) ==
    IF n = 0 THEN NoIO(OK, r, dest, 0)
    ELSE IF n > r.b.cap THEN NoIO(OOB, r, dest, 0)
    ELSE
    LET buflen == io_buffer_len(r.b)
        to_read == n - MIN(n, buflen)
        rd == IO_READ(r.fd, dp, to_read, y)
        dest1 == IF to_read > 0 THEN StoreRead(dest, buflen, r.fd, rd.n) ELSE dest
        ap == io_buffer_append(r.b, dest1, buflen, rd.n)
        r2 == IF to_read > 0
              THEN [r EXCEPT !.b = ap.b, !.nread = r.nread + rd.n, !.fd = rd.fd]
              ELSE r
        result == IF to_read > 0 /\ rd.n < to_read THEN EOF ELSE OK
        k == MIN(io_reader_buffered(r2), n)
        sp == io_buffer_nspit(r2.b, dest1, dp, k)
        io == [reads |-> IF to_read > 0 THEN 1 ELSE 0, req |-> to_read,
               got |-> IF to_read > 0 /\ rd.n > 0 THEN rd.n ELSE 0]
    IN  IF to_read > 0 /\ rd.n < 0
        THEN [ret |-> FAILED_READ, r |-> r, dest |-> dest, k |-> 0] @@ io
        ELSE IF to_read > 0 /\ ap.err # OK
        THEN [ret |-> ap.err, r |-> [r EXCEPT !.fd = rd.fd], dest |-> dest1, k |-> 0] @@ io
        ELSE IF sp.err # OK
        THEN [ret |-> sp.err, r |-> r2, dest |-> dest1, k |-> 0] @@ io
        ELSE [ret |-> result, r |-> r2, dest |-> sp.dest, k |-> k] @@ io

\* A consume that copies out even without a destination.
io_reader_nconsume_strict(r, dest, dp, n) ==
    IF n = 0 /\ dp THEN NoIO(OK, r, dest, 0)
    ELSE
    LET to_copy == MIN(n, io_buffer_len(r.b))
        sp == io_buffer_nspit(r.b, dest, dp, to_copy)
        adv == io_buffer_nadvance(r.b, to_copy)
    IN  IF sp.err # OK
        THEN NoIO(sp.err, r, dest, 0)
        ELSE NoIO(OK,
                  [r EXCEPT !.b = adv.b, !.pos = r.pos + to_copy],
                  IF dp THEN sp.dest ELSE dest,
                  IF dp THEN to_copy ELSE 0)

io_reader_nconsume(r, dest, dp, n) ==
    IF n = 0 /\ dp THEN NoIO(OK, r, dest, 0)
    ELSE
    LET to_copy == MIN(n, io_buffer_len(r.b))
        sp == io_buffer_nspit(r.b, dest, dp, to_copy)
        adv == io_buffer_nadvance(r.b, to_copy)
    IN  IF dp /\ sp.err # OK
        THEN NoIO(sp.err, r, dest, 0)
        ELSE NoIO(OK,
                  [r EXCEPT !.b = adv.b, !.pos = r.pos + to_copy],
                  IF dp THEN sp.dest ELSE dest,
                  IF dp THEN to_copy ELSE 0)

\* A discard that advances pos and leaves the bytes in the buffer.
io_reader_discard_noreset(r) ==
    NoIO(OK, [r EXCEPT !.pos = r.pos + io_buffer_len(r.b)], NewDest(0), 0)

\* A discard that empties the buffer and leaves pos behind.
io_reader_discard_nopos(r) ==
    NoIO(OK, [r EXCEPT !.b = io_buffer_reset(r.b)], NewDest(0), 0)

io_reader_discard(r) ==
    NoIO(OK,
         [r EXCEPT !.pos = r.pos + io_buffer_len(r.b), !.b = io_buffer_reset(r.b)],
         NewDest(0), 0)

\* A read that does not count the bytes it pulls from the source.
io_reader_nread_nocount(r, dest, dp, n, y) ==
    IF n = 0 THEN NoIO(OK, r, dest, 0)
    ELSE
    LET start_pos == r.pos
        c == io_reader_nconsume(r, dest, dp, n)
        copied == c.r.pos - start_pos
        to_read == n - copied
        rd == IO_READ(c.r.fd, dp, to_read, y)
        io == [reads |-> IF to_read > 0 THEN 1 ELSE 0, req |-> to_read,
               got |-> IF to_read > 0 /\ rd.n > 0 THEN rd.n ELSE 0]
    IN  IF c.ret # OK THEN c
        ELSE IF to_read > 0 /\ rd.n < 0
        THEN [ret |-> FAILED_READ, r |-> c.r, dest |-> c.dest, k |-> c.k] @@ io
        ELSE IF to_read > 0
        THEN [ret |-> IF rd.n < to_read THEN EOF ELSE OK,
              r |-> [c.r EXCEPT !.pos = c.r.pos + rd.n,
                                !.fd = rd.fd],
              dest |-> StoreRead(c.dest, copied, c.r.fd, rd.n),
              k |-> c.k + rd.n] @@ io
        ELSE [ret |-> OK, r |-> c.r, dest |-> c.dest, k |-> c.k] @@ io

\* A read that asks the source for n bytes whatever the buffer gave.
io_reader_nread_whole(r, dest, dp, n, y) ==
    IF n = 0 THEN NoIO(OK, r, dest, 0)
    ELSE
    LET start_pos == r.pos
        c == io_reader_nconsume(r, dest, dp, n)
        copied == c.r.pos - start_pos
        to_read == n
        rd == IO_READ(c.r.fd, dp, to_read, y)
        io == [reads |-> IF to_read > 0 THEN 1 ELSE 0, req |-> to_read,
               got |-> IF to_read > 0 /\ rd.n > 0 THEN rd.n ELSE 0]
    IN  IF c.ret # OK THEN c
        ELSE IF to_read > 0 /\ rd.n < 0
        THEN [ret |-> FAILED_READ, r |-> c.r, dest |-> c.dest, k |-> c.k] @@ io
        ELSE IF to_read > 0
        THEN [ret |-> IF rd.n < to_read THEN EOF ELSE OK,
              r |-> [c.r EXCEPT !.pos = c.r.pos + rd.n,
                                !.nread = c.r.nread + rd.n,
                                !.fd = rd.fd],
              dest |-> StoreRead(c.dest, copied, c.r.fd, rd.n),
              k |-> c.k + rd.n] @@ io
        ELSE [ret |-> OK, r |-> c.r, dest |-> c.dest, k |-> c.k] @@ io

\* A read that reports end of file only when the source yields nothing.
io_reader_nread_eof(r, dest, dp, n, y) ==
    IF n = 0 THEN NoIO(OK, r, dest, 0)
    ELSE
    LET start_pos == r.pos
        c == io_reader_nconsume(r, dest, dp, n)
        copied == c.r.pos - start_pos
        to_read == n - copied
        rd == IO_READ(c.r.fd, dp, to_read, y)
        io == [reads |-> IF to_read > 0 THEN 1 ELSE 0, req |-> to_read,
               got |-> IF to_read > 0 /\ rd.n > 0 THEN rd.n ELSE 0]
    IN  IF c.ret # OK THEN c
        ELSE IF to_read > 0 /\ rd.n < 0
        THEN [ret |-> FAILED_READ, r |-> c.r, dest |-> c.dest, k |-> c.k] @@ io
        ELSE IF to_read > 0
        THEN [ret |-> IF rd.n = 0 THEN EOF ELSE OK,
              r |-> [c.r EXCEPT !.pos = c.r.pos + rd.n,
                                !.nread = c.r.nread + rd.n,
                                !.fd = rd.fd],
              dest |-> StoreRead(c.dest, copied, c.r.fd, rd.n),
              k |-> c.k + rd.n] @@ io
        ELSE [ret |-> OK, r |-> c.r, dest |-> c.dest, k |-> c.k] @@ io

\* A read that fails before it has touched the buffer.
io_reader_nread_failfirst(r, dest, dp, n, y) ==
    IF n = 0 THEN NoIO(OK, r, dest, 0)
    ELSE
    LET start_pos == r.pos
        c == io_reader_nconsume(r, dest, dp, n)
        copied == c.r.pos - start_pos
        to_read == n - copied
        rd == IO_READ(c.r.fd, dp, to_read, y)
        io == [reads |-> IF to_read > 0 THEN 1 ELSE 0, req |-> to_read,
               got |-> IF to_read > 0 /\ rd.n > 0 THEN rd.n ELSE 0]
    IN  IF c.ret # OK THEN c
        ELSE IF to_read > 0 /\ rd.n < 0
        THEN [ret |-> FAILED_READ, r |-> r, dest |-> dest, k |-> 0] @@ io
        ELSE IF to_read > 0
        THEN [ret |-> IF rd.n < to_read THEN EOF ELSE OK,
              r |-> [c.r EXCEPT !.pos = c.r.pos + rd.n,
                                !.nread = c.r.nread + rd.n,
                                !.fd = rd.fd],
              dest |-> StoreRead(c.dest, copied, c.r.fd, rd.n),
              k |-> c.k + rd.n] @@ io
        ELSE [ret |-> OK, r |-> c.r, dest |-> c.dest, k |-> c.k] @@ io

\* A read that takes a source return of zero for an error.
io_reader_nread_zeroerr(r, dest, dp, n, y) ==
    IF n = 0 THEN NoIO(OK, r, dest, 0)
    ELSE
    LET start_pos == r.pos
        c == io_reader_nconsume(r, dest, dp, n)
        copied == c.r.pos - start_pos
        to_read == n - copied
        rd == IO_READ(c.r.fd, dp, to_read, y)
        io == [reads |-> IF to_read > 0 THEN 1 ELSE 0, req |-> to_read,
               got |-> IF to_read > 0 /\ rd.n > 0 THEN rd.n ELSE 0]
    IN  IF c.ret # OK THEN c
        ELSE IF to_read > 0 /\ rd.n <= 0
        THEN [ret |-> FAILED_READ, r |-> c.r, dest |-> c.dest, k |-> c.k] @@ io
        ELSE IF to_read > 0
        THEN [ret |-> IF rd.n < to_read THEN EOF ELSE OK,
              r |-> [c.r EXCEPT !.pos = c.r.pos + rd.n,
                                !.nread = c.r.nread + rd.n,
                                !.fd = rd.fd],
              dest |-> StoreRead(c.dest, copied, c.r.fd, rd.n),
              k |-> c.k + rd.n] @@ io
        ELSE [ret |-> OK, r |-> c.r, dest |-> c.dest, k |-> c.k] @@ io

io_reader_nread(r, dest, dp, n, y) ==
    IF n = 0 THEN NoIO(OK, r, dest, 0)
    ELSE
    LET start_pos == r.pos
        c == io_reader_nconsume(r, dest, dp, n)
        copied == c.r.pos - start_pos
        to_read == n - copied
        rd == IO_READ(c.r.fd, dp, to_read, y)
        io == [reads |-> IF to_read > 0 THEN 1 ELSE 0, req |-> to_read,
               got |-> IF to_read > 0 /\ rd.n > 0 THEN rd.n ELSE 0]
    IN  IF c.ret # OK THEN c
        ELSE IF to_read > 0 /\ rd.n < 0
        THEN [ret |-> FAILED_READ, r |-> c.r, dest |-> c.dest, k |-> c.k] @@ io
        ELSE IF to_read > 0
        THEN [ret |-> IF rd.n < to_read THEN EOF ELSE OK,
              r |-> [c.r EXCEPT !.pos = c.r.pos + rd.n,
                                !.nread = c.r.nread + rd.n,
                                !.fd = rd.fd],
              dest |-> StoreRead(c.dest, copied, c.r.fd, rd.n),
              k |-> c.k + rd.n] @@ io
        ELSE [ret |-> OK, r |-> c.r, dest |-> c.dest, k |-> c.k] @@ io

(***************************************************************************)
(* The state machine                                                       *)
(***************************************************************************)
\* The buffer, the source and the reader as the operations see them.
B == [cap |-> cap, buf |-> buf, start |-> start, end |-> end]
FD == [off |-> fd_off, len |-> fd_len]
R == [b |-> B, pos |-> pos, nread |-> nread, fd |-> FD]

\* Whether the last call was a peek that delivered its bytes.
Peeked == last.op = "npeek" /\ last.ret \in {OK, EOF}

\* What the last call was and what it returned: op, its arguments n and dp
\* (destination present), the result, and whether the call before it was a
\* peek that delivered its bytes (after_peek).
Call(op, n, dp, res) ==
    [op |-> op, after_peek |-> Peeked, n |-> n, dp |-> dp, ret |-> res.ret,
     dest |-> res.dest, reads |-> res.reads, req |-> res.req, got |-> res.got,
     k |-> res.k]

SetBuffer(b) ==
    /\ buf' = b.buf
    /\ start' = b.start
    /\ end' = b.end
    /\ UNCHANGED <<cap, fd_len>>

SetReader(r) ==
    /\ SetBuffer(r.b)
    /\ pos' = r.pos
    /\ nread' = r.nread
    /\ fd_off' = r.fd.off

Init ==
    /\ cap \in Caps
    /\ fd_len \in 0..MaxLen
    /\ buf = io_buffer_init(cap).buf
    /\ start = io_buffer_init(cap).start
    /\ end = io_buffer_init(cap).end
    /\ pos = io_reader_init(io_buffer_init(cap), [off |-> 0, len |-> fd_len]).pos
    /\ nread = io_reader_init(io_buffer_init(cap), [off |-> 0, len |-> fd_len]).nread
    /\ fd_off = 0
    /\ delivered = 0
    /\ skipped = 0
    /\ last = [op |-> "init", after_peek |-> FALSE, n |-> 0, dp |-> TRUE, ret |-> OK,
               dest |-> NewDest(0), reads |-> 0, req |-> 0, got |-> 0, k |-> 0]

\* What the source may offer on a read made for a request of n bytes: an
\* error, fewer bytes than the read asks for, or all of them (any offer of
\* at least the number asked for or left in the stream acts as FullYield).
Offers(n) ==
    LET shortfall == n - MIN(n, io_buffer_len(B))
        most == MIN(shortfall, fd_len - fd_off)
    IN  {y \in Yields : y = FullYield \/ y < most}

\* The bytes a call dropped from the buffer without handing them to a caller.
Dropped(r, dp) == IF dp THEN 0 ELSE io_buffer_len(B) - io_buffer_len(r.b)

\* One call io_reader_npeek(r, dest, n) under the source offer y.
PeekCall(n, dp, y) ==
    LET res == io_reader_npeek(R, NewDest(n), dp, n, y)
    IN  /\ SetReader(res.r)
        /\ last' = Call("npeek", n, dp, res)
        /\ UNCHANGED <<delivered, skipped>>

Peek == \E n \in ArgN, dp \in BOOLEAN : \E y \in Offers(n) : PeekCall(n, dp, y)

Consume ==
    \E n \in ArgN, dp \in BOOLEAN :
        LET res == io_reader_nconsume(R, NewDest(n), dp, n)
        IN  /\ SetReader(res.r)
            /\ last' = Call("nconsume", n, dp, res)
            /\ delivered' = delivered + Written(res.dest)
            /\ skipped' = skipped + Dropped(res.r, dp)

\* One call io_reader_nread(r, dest, n) under the source offer y.
ReadCall(n, dp, y) ==
    LET res == io_reader_nread(R, NewDest(n), dp, n, y)
    IN  /\ SetReader(res.r)
        /\ last' = Call("nread", n, dp, res)
        /\ delivered' = delivered + Written(res.dest)
        /\ skipped' = skipped + Dropped(res.r, dp)

Read == \E n \in ArgN, dp \in BOOLEAN : \E y \in Offers(n) : ReadCall(n, dp, y)

Discard ==
    LET res == io_reader_discard(R)
    IN  /\ SetReader(res.r)
        /\ last' = Call("discard", 0, FALSE, res)
        /\ delivered' = delivered
        /\ skipped' = skipped + Dropped(res.r, FALSE)

Next == Peek \/ Consume \/ Read \/ Discard

Spec == Init /\ [][Next]_vars

(***************************************************************************)
(* The reader over an error-free source that yields min(requested,         *)
(* remaining) on every read, used by a caller that keeps calling           *)
(* io_reader_nread with a destination and n >= 1, with peeks, consumes and *)
(* discards in between.  DrainRead is enabled in every state (a call with  *)
(* any n >= 1 can always be made, and two calls of different n give        *)
(* different records), so to keep calling it is what weak fairness of      *)
(* DrainRead asks for: that DrainRead steps happen again and again.        *)
(***************************************************************************)
DrainPeek == \E n \in ArgN : PeekCall(n, TRUE, FullYield)

DrainRead == \E n \in ArgN \ {0} : ReadCall(n, TRUE, FullYield)

DrainNext == DrainPeek \/ Consume \/ DrainRead \/ Discard

DrainSpec == Init /\ [][DrainNext]_vars /\ []<><<DrainRead>>_vars

(***************************************************************************)
(* The buffer on its own, driven by its owner.  The bytes appended are the *)
(* next bytes of the stream, so that every byte stored is distinct: fd_off *)
(* counts the bytes appended so far, and skipped the bytes that advance    *)
(* and reset have dropped.                                                 *)
(***************************************************************************)
BufCall(op, n, dp, ret, dest, k) ==
    [op |-> op, after_peek |-> FALSE, n |-> n, dp |-> dp, ret |-> ret,
     dest |-> dest, reads |-> 0, req |-> 0, got |-> 0, k |-> k]

\* An append that fits takes its bytes from what is left of the stream; one
\* that does not fit is tried with any length.
BufAppend ==
    \E n \in ArgN :
        /\ (n <= cap - io_buffer_len(B)) => (fd_off + n <= fd_len)
        /\ LET res == io_buffer_append(B, SrcArray(fd_off, n), 0, n)
           IN  /\ SetBuffer(res.b)
               /\ fd_off' = IF res.err = OK THEN fd_off + n ELSE fd_off
               /\ last' = BufCall("append", n, TRUE, res.err, NewDest(0), 0)
        /\ UNCHANGED <<pos, nread, delivered, skipped>>

BufAdvance ==
    \E n \in ArgN :
        LET res == io_buffer_nadvance(B, n)
        IN  /\ SetBuffer(res.b)
            /\ last' = BufCall("nadvance", n, TRUE, OK, NewDest(0), res.ret)
            /\ skipped' = skipped + res.ret
            /\ UNCHANGED <<pos, nread, fd_off, delivered>>

BufReset ==
    /\ SetBuffer(io_buffer_reset(B))
    /\ last' = BufCall("reset", 0, TRUE, OK, NewDest(0), 0)
    /\ skipped' = fd_off
    /\ UNCHANGED <<pos, nread, fd_off, delivered>>

BufSpit ==
    \E n \in ArgN, dp \in BOOLEAN :
        LET res == io_buffer_nspit(B, NewDest(n), dp, n)
        IN  /\ SetBuffer(B)
            /\ last' = BufCall("nspit", n, dp, res.err, res.dest, 0)
            /\ UNCHANGED <<pos, nread, fd_off, delivered, skipped>>

BufNext == BufAppend \/ BufAdvance \/ BufReset \/ BufSpit

BufSpec == Init /\ [][BufNext]_vars

(***************************************************************************)
(* Properties                                                              *)
(***************************************************************************)
\* The logical length of the buffer in BufSpec: appended minus dropped.
Held == fd_off - skipped

\* C1: after io_reader_init on an empty buffer and any sequence of npeek,
\* nconsume, nread and discard calls, whatever they return, pos <= nread and
\* nread - pos equals io_buffer_len of the bound buffer.
C1_ReaderInvariant ==
    /\ pos <= nread
    /\ nread - pos = io_buffer_len(B)

C1_Witness ==
    /\ last.ret = FAILED_READ
    /\ pos > 0
    /\ nread - pos > 0
    /\ end < start

\* C2: after io_buffer_init and any sequence of append, nadvance, reset and
\* nspit calls on a buffer of capacity cap >= 1, io_buffer_len is in [0, cap].
C2_LenInRange == io_buffer_len(B) \in 0..cap

C2_Witness ==
    /\ last.op = "append"
    /\ last.ret = OK
    /\ end < start
    /\ io_buffer_len(B) = cap

\* C3: in every reachable buffer state start = end exactly when the logical
\* length is 0, and a buffer holding cap bytes never has start = end: its
\* start is one physical slot after end, modulo cap + 1.
C3_EmptyIffEqual ==
    /\ (start = end) <=> (Held = 0)
    /\ (start = end) <=> (io_buffer_len(B) = 0)
    /\ \A l \in {Held, io_buffer_len(B)} :
          l = cap => (start # end /\ start = (end + 1) % (cap + 1))

C3_Witness ==
    /\ Held = cap
    /\ io_buffer_len(B) = cap
    /\ start = end + 1

\* C4: after any sequence of reader operations nread is the number of bytes
\* the source has handed out (its read offset), and pos is the number of
\* bytes delivered to callers by consume and read plus the number skipped by
\* consume without a destination and by discard.
C4_Accounting ==
    /\ nread = fd_off
    /\ pos = delivered + skipped

C4_Witness ==
    /\ delivered > 0
    /\ skipped > 0
    /\ last.op = "nread"
    /\ last.ret = FAILED_READ
    /\ last.k > 0

\* C5: io_reader_npeek never changes pos, whatever n is and whatever it
\* returns.
C5_PeekKeepsPos == [][last'.op = "npeek" => pos' = pos]_vars

C5_Witness ==
    /\ last.op = "npeek"
    /\ last.ret = EOF
    /\ last.got > 0
    /\ pos > 0

\* C6: after io_reader_npeek has delivered k bytes (OK or EndOfFile), an
\* immediately following io_reader_nconsume(dest2, k) or
\* io_reader_nread(dest2, k) delivers exactly the same k bytes in the same
\* order and reads nothing from the source, whatever the source would yield.
C6_PeekedStaysAvailable ==
    Peeked =>
        LET k == last.k
            peeked == [i \in 0..(k - 1) |-> last.dest[i]]
            c == io_reader_nconsume(R, NewDest(k), TRUE, k)
        IN  /\ c.ret = OK /\ c.dest = peeked /\ c.k = k /\ c.reads = 0
            /\ \A y \in Yields :
                  LET rd == io_reader_nread(R, NewDest(k), TRUE, k, y)
                  IN  rd.ret = OK /\ rd.dest = peeked /\ rd.k = k /\ rd.reads = 0

C6_Witness ==
    /\ last.after_peek
    /\ last.op \in {"nconsume", "nread"}
    /\ last.dp
    /\ last.n = cap
    /\ last.k = cap
    /\ last.reads = 0
    /\ pos > cap
    /\ cap > 1

\* C7: with a source that yields min(requested, remaining) bytes per read,
\* io_reader_npeek(m), m <= cap, followed by io_reader_nread(n) delivers the
\* same bytes in source order and leaves the same pos as io_reader_nread(n)
\* alone; when n >= m covers what is buffered and the stream still holds n
\* bytes, the read returns OK and leaves buffered() = 0 and pos = nread.
C7_PeekThenRead ==
    \A m \in 0..cap, n \in ArgN :
        LET p == io_reader_npeek(R, NewDest(m), TRUE, m, FullYield)
            both == io_reader_nread(p.r, NewDest(n), TRUE, n, FullYield)
            alone == io_reader_nread(R, NewDest(n), TRUE, n, FullYield)
        IN  /\ both.dest = alone.dest
            /\ both.k = alone.k
            /\ both.r.pos = alone.r.pos
            /\ \A i \in 0..(both.k - 1) : both.dest[i] = SrcByte(pos + i)
            /\ (n >= m /\ io_reader_buffered(R) <= n /\ fd_len - pos >= n) =>
                  /\ both.ret = OK
                  /\ io_reader_buffered(both.r) = 0
                  /\ io_buffer_len(both.r.b) = 0
                  /\ both.r.pos = both.r.nread
                  /\ both.r.pos = pos + n

C7_Witness ==
    /\ last.after_peek
    /\ last.op = "nread"
    /\ last.dp
    /\ last.ret = OK
    /\ last.k = last.n
    /\ last.got > 0
    /\ last.k > last.got
    /\ pos = nread
    /\ nread = fd_len

\* C8: io_reader_npeek with n above the buffer's capacity returns OutOfBounds
\* without reading from the source and leaves pos, nread, the buffer and the
\* destination unchanged; n = cap is not refused.
C8_PeekBeyondCap ==
    [][last'.op = "npeek" =>
          /\ last'.n > cap =>
                /\ last'.ret = OOB
                /\ last'.reads = 0
                /\ last'.dest = NewDest(last'.n)
                /\ UNCHANGED <<pos, nread, buf, start, end, fd_off>>
          /\ last'.n = cap => last'.ret # OOB
          /\ (last'.n = cap /\ last'.dp /\ last'.ret # FAILED_READ) =>
                last'.ret \in {OK, EOF}]_vars

C8_Witness ==
    /\ last.op = "npeek"
    /\ last.n > cap
    /\ last.ret = OOB
    /\ pos > 0
    /\ nread > pos
    /\ fd_off < fd_len

\* C9: io_reader_npeek(dest, n) with 0 < n <= cap reads nothing from the
\* source when buffered() >= n; otherwise it asks the source once for exactly
\* n - buffered() bytes, appends the bytes obtained to the buffer in order,
\* for every layout, and adds exactly the number obtained to nread.
C9_PeekReadsShortfall ==
    [][(last'.op = "npeek" /\ last'.n > 0 /\ last'.n <= cap) =>
          LET have == io_reader_buffered(R)
              got == last'.got
          IN  IF have >= last'.n
              THEN /\ last'.reads = 0
                   /\ got = 0
                   /\ UNCHANGED <<nread, fd_off, buf, start, end>>
              ELSE /\ last'.reads = 1
                   /\ last'.req = last'.n - have
                   /\ got <= last'.n - have
                   /\ nread' = nread + got
                   /\ fd_off' = fd_off + got
                   /\ start' = start
                   /\ Contents(B') =
                         [i \in 0..(have + got - 1) |->
                             IF i < have THEN Contents(B)[i]
                             ELSE SrcByte(fd_off + (i - have))]]_vars

C9_Witness ==
    /\ last.op = "npeek"
    /\ last.reads = 1
    /\ last.got > end
    /\ end > 0
    /\ pos > 0

\* C10: io_reader_npeek(dest, n) with 0 < n <= cap, a destination and no
\* source error returns EndOfFile exactly when the source yielded fewer bytes
\* than the shortfall and OK otherwise; dest[0..k) holds the first
\* k = min(buffered(), n) undelivered bytes of the stream, buffered() taken
\* after the call, so OK gives k = n and EndOfFile gives k = buffered() < n.
C10_PeekResult ==
    (last.op = "npeek" /\ last.n > 0 /\ last.n <= cap /\ last.dp
        /\ last.ret # FAILED_READ) =>
        LET k == MIN(io_reader_buffered(R), last.n)
        IN  /\ last.ret \in {OK, EOF}
            /\ (last.ret = EOF) <=> (last.got < last.req)
            /\ last.k = k
            /\ \A i \in 0..(k - 1) : last.dest[i] = SrcByte(pos + i)
            /\ last.ret = OK => k = last.n
            /\ last.ret = EOF => (k = io_reader_buffered(R) /\ k < last.n)

C10_Witness ==
    /\ last.op = "npeek"
    /\ last.dp
    /\ last.ret = EOF
    /\ last.got > 0
    /\ last.k < last.n
    /\ end < start

\* The logical contents of b without their first k bytes.
Rest(b, k) == [i \in 0..(io_buffer_len(b) - k - 1) |-> Contents(b)[i + k]]

\* C11: io_reader_nconsume(dest, n) always returns OK, never reads from the
\* source and never changes nread; it delivers the first
\* k = min(n, buffered()) buffered bytes to a present dest, advances the
\* buffer start and pos by exactly k, and leaves the remaining buffered
\* bytes in order.
C11_Consume ==
    [][last'.op = "nconsume" =>
          LET k == MIN(last'.n, io_reader_buffered(R))
          IN  /\ last'.ret = OK
              /\ last'.reads = 0
              /\ UNCHANGED <<nread, fd_off, end, buf>>
              /\ pos' = pos + k
              /\ start' = (start + k) % (cap + 1)
              /\ Contents(B') = Rest(B, k)
              /\ last'.dp =>
                    /\ last'.k = k
                    /\ Written(last'.dest) = k
                    /\ \A i \in 0..(k - 1) : last'.dest[i] = Contents(B)[i]]_vars

C11_Witness ==
    /\ last.op = "nconsume"
    /\ last.dp
    /\ last.k > 0
    /\ last.k < last.n
    /\ start = 0
    /\ pos > last.k

\* C12: io_reader_nconsume with a NULL destination returns OK, writes to no
\* destination, and leaves pos, nread and the buffer exactly as the same call
\* with a destination would: pos advanced by min(n, buffered()) and
\* buffered() reduced by as much, for every n, 0 included.
C12_ConsumeNoDest ==
    \A n \in ArgN :
        LET k == MIN(n, io_reader_buffered(R))
            without == io_reader_nconsume(R, NewDest(n), FALSE, n)
            with == io_reader_nconsume(R, NewDest(n), TRUE, n)
        IN  /\ without.ret = OK
            /\ without.dest = NewDest(n)
            /\ without.r = with.r
            /\ without.r.pos = pos + k
            /\ without.r.nread = nread
            /\ io_reader_buffered(without.r) = io_reader_buffered(R) - k
            /\ io_buffer_len(without.r.b) = io_buffer_len(B) - k

C12_Witness ==
    /\ last.op = "nconsume"
    /\ ~last.dp
    /\ last.n > 0
    /\ last.ret = OK
    /\ skipped > 0
    /\ nread > pos
    /\ end < start

\* C13: io_reader_nread(dest, n) with n > 0 first delivers
\* c = min(n, buffered()) buffered bytes into dest[0..c), then, only if
\* c < n, asks the source once for n - c bytes straight into dest[c..); it
\* never appends to the buffer, advances pos by the total delivered and nread
\* by the count obtained from the source, and reads nothing when
\* buffered() >= n.  What lands in dest is stated for a present dest.
C13_Read ==
    [][(last'.op = "nread" /\ last'.n > 0) =>
          LET c == MIN(last'.n, io_reader_buffered(R))
              got == last'.got
          IN  /\ IF c < last'.n
                 THEN /\ last'.reads = 1
                      /\ last'.req = last'.n - c
                      /\ got <= last'.n - c
                 ELSE last'.reads = 0 /\ got = 0
              /\ last'.dp =>
                    /\ \A i \in 0..(c - 1) : last'.dest[i] = Contents(B)[i]
                    /\ \A i \in 0..(got - 1) :
                          last'.dest[c + i] = SrcByte(fd_off + i)
                    /\ Written(last'.dest) = c + got
              /\ UNCHANGED <<end, buf>>
              /\ Contents(B') = Rest(B, c)
              /\ pos' = pos + c + got
              /\ nread' = nread + got
              /\ fd_off' = fd_off + got]_vars

C13_Witness ==
    /\ last.op = "nread"
    /\ last.after_peek
    /\ last.dp
    /\ last.reads = 1
    /\ last.got > 0
    /\ last.k > last.got
    /\ last.k < last.n

\* C14: io_reader_nread(dest, n) with a destination and no source error
\* returns EndOfFile exactly when the bytes delivered, buffered part plus
\* source part, are fewer than n, and OK exactly when they are n; on
\* EndOfFile the bytes obtained are still delivered and pos has advanced by
\* their number.
C14_ReadResult ==
    [][(last'.op = "nread" /\ last'.dp /\ last'.ret # FAILED_READ) =>
          LET k == Written(last'.dest)
          IN  /\ last'.ret \in {OK, EOF}
              /\ (last'.ret = EOF) <=> (k < last'.n)
              /\ (last'.ret = OK) <=> (k = last'.n)
              /\ last'.k = k
              /\ pos' = pos + k
              /\ \A i \in 0..(k - 1) : last'.dest[i] = SrcByte(pos + i)]_vars

C14_Witness ==
    /\ last.op = "nread"
    /\ last.dp
    /\ last.ret = EOF
    /\ last.got > 0
    /\ last.k > last.got
    /\ pos = fd_len

\* C15: io_reader_discard, from any reader state, returns OK and leaves
\* pos = nread and buffered() = 0, with pos increased by exactly what was
\* buffered, nread unchanged and no source read.
C15_Discard ==
    [][last'.op = "discard" =>
          /\ last'.ret = OK
          /\ last'.reads = 0
          /\ pos' = nread'
          /\ pos' = pos + io_reader_buffered(R)
          /\ io_reader_buffered(R') = 0
          /\ io_buffer_len(B') = 0
          /\ UNCHANGED <<nread, fd_off>>]_vars

C15_Witness ==
    /\ last.op = "discard"
    /\ last.ret = OK
    /\ pos = nread
    /\ skipped = cap
    /\ delivered > 0
    /\ start > 0

\* The destinations a zero-length call is tried with: untouched and filled.
ZeroDests == {NewDest(1), SrcArray(0, 1)}

\* A zero-length npeek, nread or append from the current state: success, no
\* source read, and the reader, the buffer and the destination as they were.
ZeroPeekReadAppend ==
    /\ \A d \in ZeroDests, dp \in BOOLEAN, y \in Yields :
          /\ io_reader_npeek(R, d, dp, 0, y) = NoIO(OK, R, d, 0)
          /\ io_reader_nread(R, d, dp, 0, y) = NoIO(OK, R, d, 0)
    /\ \A s0 \in 0..1 :
          LET a == io_buffer_append(B, SrcArray(0, 1), s0, 0)
          IN  a.err = OK /\ a.b = B

\* C16 as stated: a call with n == 0 to io_reader_npeek, io_reader_nread,
\* io_buffer_append or io_buffer_nspit returns success, reads nothing from
\* the source and changes neither the buffer, pos, nread nor the destination,
\* in every state and for every other argument.
C16_ZeroAlwaysOk ==
    /\ ZeroPeekReadAppend
    /\ \A d \in ZeroDests, dp \in BOOLEAN :
          LET s == io_buffer_nspit(B, d, dp, 0)
          IN  s.err = OK /\ s.dest = d

\* C16: a call with n == 0 to io_reader_npeek, io_reader_nread or
\* io_buffer_append returns success for every state and every other
\* argument; io_buffer_nspit with n == 0 returns success with a destination
\* and IO_ERR_INV_PTR with a NULL one; none of the four reads from the source
\* or changes the buffer, pos, nread or the destination.
C16_ZeroLength ==
    /\ ZeroPeekReadAppend
    /\ \A d \in ZeroDests, dp \in BOOLEAN :
          LET s == io_buffer_nspit(B, d, dp, 0)
          IN  /\ s.err = IF dp THEN OK ELSE INV_PTR
              /\ s.dest = d

C16_Witness ==
    /\ last.op = "npeek"
    /\ last.n = 0
    /\ ~last.dp
    /\ last.ret = OK
    /\ last.reads = 0
    /\ nread > pos
    /\ io_buffer_nspit(B, NewDest(1), FALSE, 0).err = INV_PTR

\* C17: io_buffer_append(src, n) with n > cap - len() returns IO_ERR_OOB and
\* leaves start, end and every stored byte unchanged, whether the buffer is
\* empty, contiguous, wrapped or full.
C17_AppendBeyondSpace ==
    [][(last'.op = "append" /\ last'.n > cap - io_buffer_len(B)) =>
          /\ last'.ret = OOB
          /\ UNCHANGED <<buf, start, end, cap>>]_vars

C17_Witness ==
    /\ last.op = "append"
    /\ last.ret = OOB
    /\ end < start
    /\ Held > 0
    /\ Held < cap
    /\ last.n = cap

\* C18: io_buffer_append(src, n) with 0 < n <= cap - len() returns OK, leaves
\* start unchanged, sets end to (end + n) mod (cap + 1), and makes the
\* logical contents the previous logical contents followed by src[0..n), in
\* every layout, a write that crosses the physical end included.
C18_Append ==
    [][(last'.op = "append" /\ last'.n > 0
           /\ last'.n <= cap - io_buffer_len(B)) =>
          LET len == io_buffer_len(B)
          IN  /\ last'.ret = OK
              /\ start' = start
              /\ end' = (end + last'.n) % (cap + 1)
              /\ Contents(B') =
                    [i \in 0..(len + last'.n - 1) |->
                        IF i < len THEN Contents(B)[i]
                        ELSE SrcByte(fd_off + i - len)]]_vars

C18_Witness ==
    /\ last.op = "append"
    /\ last.ret = OK
    /\ last.n > end
    /\ end > 0
    /\ start > 0

\* C19: io_buffer_nspit(dest, n) with 0 < n <= len() and a destination
\* returns OK and writes the first n logical bytes, in order, into
\* dest[0..n); when the window wraps, the bytes from start to the physical
\* end come first and the bytes from physical index 0 follow.
C19_Spit ==
    (last.op = "nspit" /\ last.dp /\ last.n > 0
        /\ last.n <= io_buffer_len(B)) =>
       LET tail == cap + 1 - start
       IN  /\ last.ret = OK
           /\ DOMAIN last.dest = 0..(last.n - 1)
           /\ \A i \in 0..(last.n - 1) :
                 /\ last.dest[i] = Contents(B)[i]
                 /\ last.dest[i] = SrcByte(skipped + i)
                 /\ last.dest[i] = IF i < tail THEN buf[start + i]
                                   ELSE buf[i - tail]

C19_Witness ==
    /\ last.op = "nspit"
    /\ last.dp
    /\ last.ret = OK
    /\ end < start
    /\ last.n > cap + 1 - start

\* C20 as stated: for a buffer in any reachable state, a successful
\* io_buffer_append(src, n) followed by io_buffer_nspit(dest, n) of the same
\* length leaves dest equal to src[0..n), and the nspit leaves start, end and
\* the stored bytes unchanged.
C20_AppendThenSpitAnyState ==
    [][(last.op = "append" /\ last.ret = OK /\ last'.op = "nspit"
           /\ last'.dp /\ last'.n = last.n) =>
          /\ last'.dest = SrcArray(fd_off - last.n, last.n)
          /\ UNCHANGED <<buf, start, end>>]_vars

\* C20: for a buffer that was empty before the append, wherever its start
\* index stood, a successful io_buffer_append(src, n) followed by
\* io_buffer_nspit(dest, n) of the same length leaves dest equal to
\* src[0..n), and the nspit leaves start, end and the stored bytes unchanged.
C20_AppendThenSpit ==
    [][(last.op = "append" /\ last.ret = OK /\ last'.op = "nspit"
           /\ last'.dp /\ last'.n = last.n /\ Held = last.n) =>
          /\ last'.ret = OK
          /\ last'.dest = SrcArray(fd_off - last.n, last.n)
          /\ UNCHANGED <<buf, start, end>>]_vars

C20_Witness ==
    /\ last.op = "nspit"
    /\ last.dp
    /\ last.ret = OK
    /\ last.n > 0
    /\ last.n = Held
    /\ last.dest = SrcArray(fd_off - last.n, last.n)
    /\ end < start

\* C21: io_buffer_nspit returns IO_ERR_INV_PTR when dest is NULL and
\* IO_ERR_OOB when dest is present and n > len(); in both cases start, end
\* and the stored bytes are unchanged and nothing is written to the
\* destination.
C21_SpitErrors ==
    [][last'.op = "nspit" =>
          /\ ~last'.dp => last'.ret = INV_PTR
          /\ (last'.dp /\ last'.n > io_buffer_len(B)) => last'.ret = OOB
          /\ (~last'.dp \/ last'.n > io_buffer_len(B)) =>
                /\ last'.dest = NewDest(last'.n)
                /\ UNCHANGED <<buf, start, end, cap>>]_vars

C21_Witness ==
    /\ last.op = "nspit"
    /\ last.dp
    /\ last.ret = OOB
    /\ last.n <= cap
    /\ Held > 0
    /\ end < start

\* C22: io_buffer_nadvance(n) returns k = min(n, len()) for every n and
\* every layout, sets start to (start + k) mod (cap + 1), leaves end and the
\* stored bytes unchanged and reduces len() by exactly k; n > len() is no
\* error and leaves the buffer empty with start = end.
C22_Advance ==
    [][last'.op = "nadvance" =>
          LET k == MIN(last'.n, io_buffer_len(B))
          IN  /\ last'.k = k
              /\ start' = (start + k) % (cap + 1)
              /\ UNCHANGED <<buf, end, cap>>
              /\ io_buffer_len(B') = io_buffer_len(B) - k
              /\ Contents(B') = Rest(B, k)
              /\ last'.n > io_buffer_len(B) =>
                    (io_buffer_len(B') = 0 /\ start' = end')]_vars

C22_Witness ==
    /\ last.op = "nadvance"
    /\ last.k > 0
    /\ last.k < last.n
    /\ start = end
    /\ start < last.k

\* C23: io_buffer_reset from any buffer state returns OK, leaves len() = 0
\* and changes only start, which it sets to end: end, cap and every stored
\* byte are unchanged.
C23_Reset ==
    [][last'.op = "reset" =>
          /\ last'.ret = OK
          /\ io_buffer_len(B') = 0
          /\ start' = end
          /\ UNCHANGED <<buf, end, cap>>]_vars

C23_Witness ==
    /\ last.op = "reset"
    /\ start = end
    /\ end > 0
    /\ end < skipped
    /\ buf[cap] # Junk

\* What the source returns to the one IO_READ that a call with result res
\* made from the current state, under the offer y.
SourceReturn(res, dp, y) == IO_READ(FD, dp, res.req, y).n

\* C24: when the source returns a negative count to the read made by
\* io_reader_npeek or io_reader_nread, the call returns IO_ERR_FAILED_READ;
\* a zero or short non-negative return is never reported as
\* IO_ERR_FAILED_READ, and neither is a call that made no read.
C24_FailedRead ==
    \A n \in ArgN, dp \in BOOLEAN, y \in Yields :
        LET pk == io_reader_npeek(R, NewDest(n), dp, n, y)
            rd == io_reader_nread(R, NewDest(n), dp, n, y)
        IN  /\ (pk.ret = FAILED_READ) <=>
                  (pk.reads = 1 /\ SourceReturn(pk, dp, y) < 0)
            /\ (rd.ret = FAILED_READ) <=>
                  (rd.reads = 1 /\ SourceReturn(rd, dp, y) < 0)
            /\ (dp /\ y >= 0) => (pk.ret # FAILED_READ /\ rd.ret # FAILED_READ)
            /\ (y < 0 /\ pk.reads = 1) => pk.ret = FAILED_READ
            /\ (y < 0 /\ rd.reads = 1) => rd.ret = FAILED_READ

C24_Witness ==
    /\ last.op = "nread"
    /\ last.dp
    /\ last.ret = FAILED_READ
    /\ last.reads = 1
    /\ last.k > 0
    /\ fd_off < fd_len
    /\ io_reader_npeek(R, NewDest(1), TRUE, 1, 0).ret = EOF

\* C25 as stated: io_reader_npeek and io_reader_nread called with n > 0 and
\* a NULL destination return IO_ERR_INV_PTR in every reader state, whether
\* or not the buffer already holds n bytes.
C25_NullDestInvalid ==
    (last.op \in {"npeek", "nread"} /\ last.n > 0 /\ ~last.dp) =>
        last.ret = INV_PTR

\* C26 as stated: a peek or read that needs bytes from the source does not
\* return before the requested count is satisfied or the source signals an
\* error or end of stream; after a short, non-zero count with more data
\* still to come it keeps reading instead of returning end of file.
C26_KeepsReading ==
    (last.op \in {"npeek", "nread"} /\ last.reads > 0
        /\ last.got > 0 /\ last.got < last.req /\ fd_off < fd_len) =>
        last.ret # EOF

\* C26: a peek or read that needs bytes from the source makes exactly one
\* source read and returns after it; when that read returns a short,
\* non-zero count, more data still to come or not, the call returns
\* IO_ERR_EOF with the bytes obtained delivered.
C26_OneRead ==
    last.op \in {"npeek", "nread"} =>
        /\ last.reads <= 1
        /\ last.req > 0 <=> last.reads = 1
        /\ (last.reads = 1 /\ last.got > 0 /\ last.got < last.req) =>
              /\ last.ret = EOF
              /\ last.k >= last.got
              /\ last.k < last.n
              /\ last.dp => Written(last.dest) = last.k

C26_Witness ==
    /\ last.op = "nread"
    /\ last.reads = 1
    /\ last.got > 0
    /\ last.got < last.req
    /\ last.k > last.got
    /\ last.ret = EOF
    /\ fd_off < fd_len

\* C27 as stated: right after io_reader_init(r, b, fd) on any initialized
\* buffer b, empty or holding bytes, pos = nread = 0 and buffered() equals
\* io_buffer_len(b); init leaves the buffer's start, end and bytes unchanged.
C27_InitAnyBuffer ==
    LET r == io_reader_init(B, FD)
    IN  /\ r.pos = 0
        /\ r.nread = 0
        /\ io_reader_buffered(r) = io_buffer_len(r.b)
        /\ r.b = B

\* The buffer b with its whole physical layout moved d slots further round
\* the ring: the same capacity and logical contents at another start offset.
Rotate(b, d) ==
    LET size == io_buffer_size(b)
    IN  [cap |-> b.cap,
         buf |-> [i \in 0..b.cap |-> b.buf[(i + size - d) % size]],
         start |-> (b.start + d) % size,
         end |-> (b.end + d) % size]

\* C28: the circular buffer refines a bounded FIFO byte sequence: two
\* buffers of equal cap and equal logical contents whose start offsets
\* differ return the same results from io_buffer_len, io_buffer_nspit,
\* io_buffer_append and io_buffer_nadvance for the same arguments and have
\* equal logical contents afterwards.
C28_LayoutIndependent ==
    \A d \in 1..cap :
        LET b2 == Rotate(B, d)
        IN  /\ b2.start # B.start
            /\ Contents(b2) = Contents(B)
            /\ io_buffer_len(b2) = io_buffer_len(B)
            /\ \A n \in ArgN :
                  LET s1 == io_buffer_nspit(B, NewDest(n), TRUE, n)
                      s2 == io_buffer_nspit(b2, NewDest(n), TRUE, n)
                      a1 == io_buffer_append(B, SrcArray(fd_off, n), 0, n)
                      a2 == io_buffer_append(b2, SrcArray(fd_off, n), 0, n)
                      v1 == io_buffer_nadvance(B, n)
                      v2 == io_buffer_nadvance(b2, n)
                  IN  /\ s1.err = s2.err
                      /\ s1.dest = s2.dest
                      /\ io_buffer_nspit(B, NewDest(n), FALSE, n).err
                            = io_buffer_nspit(b2, NewDest(n), FALSE, n).err
                      /\ a1.err = a2.err
                      /\ Contents(a1.b) = Contents(a2.b)
                      /\ a1.err = OK =>
                            io_buffer_len(a1.b) = io_buffer_len(B) + n
                      /\ v1.ret = v2.ret
                      /\ Contents(v1.b) = Contents(v2.b)
                      /\ io_buffer_len(v1.b) = io_buffer_len(B) - v1.ret

C28_Witness ==
    /\ end < start
    /\ Held = cap
    /\ cap > 1
    /\ last.op = "append"
    /\ last.ret = OK
    /\ Rotate(B, cap + 1 - start).start = 0
    /\ Rotate(B, cap + 1 - start).end = cap

\* C29: stream integrity: after io_reader_init on an empty buffer and any
\* sequence of peek, consume, read and discard, the buffer's logical contents
\* are exactly the source bytes at stream offsets [pos, nread) in source
\* order, and every byte that consume or read delivers at reader position p
\* is the source byte at offset p: none is delivered twice, reordered or
\* lost, apart from those skipped.
C29_StreamIntegrity ==
    /\ Contents(B) = SrcArray(pos, nread - pos)
    /\ (last.op \in {"nconsume", "nread"} /\ last.dp) =>
          /\ Written(last.dest) = last.k
          /\ last.k <= pos
          /\ \A i \in 0..(last.k - 1) :
                last.dest[i] = SrcByte(pos - last.k + i)
    /\ (last.op = "npeek" /\ last.dp /\ last.ret \in {OK, EOF}) =>
          \A i \in 0..(last.k - 1) : last.dest[i] = SrcByte(pos + i)
    /\ delivered + skipped = pos
    /\ nread <= fd_len

C29_Witness ==
    /\ last.op = "nread"
    /\ last.dp
    /\ last.after_peek
    /\ last.got > 0
    /\ last.k > last.got
    /\ skipped > 0
    /\ delivered + skipped = fd_len

\* C30: in every state reachable through io_buffer_init, io_buffer_append,
\* io_buffer_nadvance and io_buffer_reset, start and end are physical
\* indices in [0, cap], end never resting at the physical size cap + 1, and
\* every byte that io_buffer_nspit reads and io_buffer_append writes lies
\* at a physical index in [0, cap].
C30_IndicesInBounds ==
    /\ start \in 0..cap
    /\ end \in 0..cap
    /\ DOMAIN buf = 0..cap
    /\ \A n \in ArgN :
          /\ io_buffer_nspit(B, NewDest(n), TRUE, n).inb
          /\ io_buffer_append(B, SrcArray(fd_off, n), 0, n).inb
          /\ io_buffer_append(B, SrcArray(fd_off, n), 0, n).b.end \in 0..cap
          /\ io_buffer_nadvance(B, n).b.start \in 0..cap

C30_Witness ==
    /\ end = cap
    /\ start = 1
    /\ cap > 1
    /\ last.op = "append"
    /\ last.ret = OK
    /\ io_buffer_append(B, SrcArray(fd_off, 1), 0, 1).b.end = 0

\* C31: when io_reader_npeek returns IO_ERR_FAILED_READ, pos, nread and the
\* buffer are as before the call; when io_reader_nread returns
\* IO_ERR_FAILED_READ, the bytes buffered before the call have been
\* delivered to a present dest, pos has advanced by exactly their number,
\* the buffer is empty and nread is unchanged.
C31_StateOnFailedRead ==
    [][/\ (last'.op = "npeek" /\ last'.ret = FAILED_READ) =>
              /\ UNCHANGED <<pos, nread, buf, start, end, fd_off>>
              /\ last'.dest = NewDest(last'.n)
       /\ (last'.op = "nread" /\ last'.ret = FAILED_READ) =>
              LET had == io_reader_buffered(R)
              IN  /\ pos' = pos + had
                  /\ UNCHANGED <<nread, fd_off, buf, end>>
                  /\ io_buffer_len(B') = 0
                  /\ io_reader_buffered(R') = 0
                  /\ last'.dp =>
                        /\ Written(last'.dest) = had
                        /\ \A i \in 0..(had - 1) :
                              last'.dest[i] = Contents(B)[i]]_vars

C31_Witness ==
    /\ last.op = "nread"
    /\ last.ret = FAILED_READ
    /\ last.dp
    /\ last.k = cap
    /\ Written(last.dest) = cap
    /\ pos = nread
    /\ start = end
    /\ skipped > 0

\* The stream is fully delivered, and a further io_reader_nread or
\* io_reader_npeek with 0 < n <= cap returns IO_ERR_EOF, delivers no byte and
\* changes no state.
Drained ==
    /\ pos = fd_len
    /\ nread = fd_len
    /\ \A n \in 1..cap :
          LET rd == io_reader_nread(R, NewDest(n), TRUE, n, FullYield)
              pk == io_reader_npeek(R, NewDest(n), TRUE, n, FullYield)
          IN  /\ rd.ret = EOF
              /\ rd.r = R
              /\ rd.dest = NewDest(n)
              /\ rd.k = 0
              /\ pk.ret = EOF
              /\ pk.r = R
              /\ pk.dest = NewDest(n)
              /\ pk.k = 0

\* C32: drain liveness: over a finite, error-free source of fd_len bytes
\* that yields min(requested, remaining) per read, a caller that keeps
\* calling io_reader_nread with n >= 1, with any peeks, consumes and discards
\* in between, eventually reaches pos = nread = fd_len, and from then on
\* every io_reader_nread and io_reader_npeek with 0 < n <= cap returns
\* IO_ERR_EOF, delivers no byte and changes no state.
C32_DrainLiveness == <>[]Drained

C32_Witness ==
    /\ pos = fd_len
    /\ nread = fd_len
    /\ fd_len = MaxLen
    /\ last.op = "nread"
    /\ last.ret = EOF
    /\ last.reads = 1
    /\ last.k = 0
    /\ delivered > 0
    /\ skipped > 0

====
